---- MODULE Spec2Model ----
\* A model of the isin crate: the checksum engine (src/src/checksum.rs) and the
\* validation and construction pipeline (src/src/lib.rs).
\*
\* A str is modelled as the sequence of its Unicode scalar values (code points),
\* a byte slice as a sequence of numbers 0..255; as_bytes is the UTF-8 encoding.
EXTENDS Integers, Sequences, FiniteSets, TLC

VARIABLES
    text,      \* the caller's input: a str in Spec, a byte slice in SpecChecksum
    edits,     \* how many construction steps the caller has applied to text
    call,      \* the library call made on text: [op, split]
    result,    \* what the call returned
    rendered,  \* << to_string() of the returned ISIN >> once rendered, else << >>
    views,     \* << the accessors' views of the returned ISIN >> once read, else << >>
    rebuilt,   \* << what building from those views returned >> once built, else << >>
    tool       \* isin-tool's run: its flag, counters, output and exit status

vars == <<text, edits, call, result, rendered, views, rebuilt, tool>>

\* ------------------------------------------------------------------ bounds

\* Longest byte slice over the full byte alphabet given to the checksum engine.
MaxLen == 2
\* Longest byte slice over CoreBytes given to the checksum engine.
MaxLongLen == 6
\* Most construction steps (substitute, pad, truncate) applied to a sample text.
MaxEdits == 2

\* ---------------------------------------------------------------- sequences

RECURSIVE Concat(_)
\* The concatenation of a sequence of sequences.
Concat(ss) == IF ss = << >> THEN << >> ELSE Head(ss) \o Concat(Tail(ss))

\* s.iter().rev()
Reverse(s) == [i \in 1..Len(s) |-> s[Len(s) + 1 - i]]

RECURSIVE SumSeq(_)
SumSeq(s) == IF s = << >> THEN 0 ELSE Head(s) + SumSeq(Tail(s))

\* ------------------------------------------------------- checksum engine

\* The outcome of a panic!() where a u8 was to be returned: one past u8::MAX.
PANIC == 256

\* A plausible slip: the letter range stops one short of 'Z'.
char_value_short_range(c) ==
    IF c \in 48..57 THEN c - 48
    ELSE IF c \in 65..89 THEN c - 65 + 10
    ELSE PANIC

\* A plausible slip: lowercase letters are taken as letters too.
char_value_any_case(c) ==
    IF c \in 48..57 THEN c - 48
    ELSE IF c \in 65..90 THEN c - 65 + 10
    ELSE IF c \in 97..122 THEN c - 97 + 10
    ELSE PANIC

char_value(c) ==
    IF c \in 48..57 THEN c - 48
    ELSE IF c \in 65..90 THEN c - 65 + 10
    ELSE PANIC

digits_of(x) == IF x >= 10 THEN <<x \div 10, x % 10>> ELSE <<x>>

\* .flat_map(digits_of)
flat_map_digits_of(s) == Concat([i \in 1..Len(s) |-> digits_of(s[i])])

\* A plausible slip: the digits at odd index are the doubled ones.
double_odd_digits(ds) ==
    Concat([j \in 1..Len(ds) |->
        IF ((j - 1) % 2) = 1 THEN digits_of((ds[j] * 2) % 256) ELSE digits_of(ds[j])])

\* .enumerate().flat_map(|(i, x)| ...) with the index i counted from 0; x * 2 is u8.
double_even_digits(ds) ==
    Concat([j \in 1..Len(ds) |->
        IF ((j - 1) % 2) = 0 THEN digits_of((ds[j] * 2) % 256) ELSE digits_of(ds[j])])

checksum_functional(s) ==
    LET values == [i \in 1..Len(s) |-> char_value(s[i])]
    IN  IF \E i \in 1..Len(s) : values[i] = PANIC THEN PANIC
        \* sum is a u32: at most 4 digits of at most 9 per byte, so it cannot wrap
        \* for slices shorter than 2^26 bytes; (sum % 10) as u8 fits.
        ELSE LET sum32 == SumSeq(double_even_digits(Reverse(flat_map_digits_of(values))))
                 sum == (sum32 % 10) % 256
                 diff == 10 - sum
             IN  IF diff = 10 THEN 0 ELSE diff

WIDTHS ==
    << 1, 1, 1, 1, 1, 1, 1, 1, 1, 1,
       2, 2, 2, 2, 2, 2, 2, 2, 2, 2,
       2, 2, 2, 2, 2, 2, 2, 2, 2, 2,
       2, 2, 2, 2, 2, 2 >>

\* A plausible slip in the table: the entry of 'I' (value 18) is 1, the digits
\* of 8 + 2 = 10 summed where 10 is reduced mod 10.
ODDS_wrong_entry ==
    << 0, 1, 2, 3, 4, 5, 6, 7, 8, 9,
       2, 3, 4, 5, 6, 7, 8, 9, 1, 1,
       4, 5, 6, 7, 8, 9, 0, 1, 2, 3,
       6, 7, 8, 9, 0, 1 >>

ODDS ==
    << 0, 1, 2, 3, 4, 5, 6, 7, 8, 9,
       2, 3, 4, 5, 6, 7, 8, 9, 0, 1,
       4, 5, 6, 7, 8, 9, 0, 1, 2, 3,
       6, 7, 8, 9, 0, 1 >>

\* A plausible slip in the table: the entry of 'J' (value 19) is 1, the entry
\* of the values 29 and 34, where 1 + 9 = 10 reduces to 0.
EVENS_wrong_entry ==
    << 0, 2, 4, 6, 8,
       1, 3, 5, 7, 9,
       1, 3, 5, 7, 9,
       2, 4, 6, 8, 1,
       2, 4, 6, 8, 0,
       3, 5, 7, 9, 1,
       3, 5, 7, 9, 1,
       4 >>

EVENS ==
    << 0, 2, 4, 6, 8,
       1, 3, 5, 7, 9,
       1, 3, 5, 7, 9,
       2, 4, 6, 8, 0,
       2, 4, 6, 8, 0,
       3, 5, 7, 9, 1,
       3, 5, 7, 9, 1,
       4 >>

RECURSIVE table_loop_step_one(_, _, _, _)
\* A plausible slip: the step counter advances by one for every character.
table_loop_step_one(s, i, sum, idx) ==
    IF i = 0 THEN sum
    ELSE LET v == char_value(s[i])
         IN  IF v = PANIC THEN PANIC
             ELSE LET x == IF (idx % 2) = 0 THEN EVENS[v + 1] ELSE ODDS[v + 1]
                  IN  table_loop_step_one(s, i - 1, ((sum + x) % 256) % 10, idx + 1)

RECURSIVE table_loop_unreduced(_, _, _, _)
\* A plausible slip: the sum is not reduced mod 10 inside the loop.
table_loop_unreduced(s, i, sum, idx) ==
    IF i = 0 THEN sum
    ELSE LET v == char_value(s[i])
         IN  IF v = PANIC THEN PANIC
             ELSE LET w == WIDTHS[v + 1]
                      x == IF (idx % 2) = 0 THEN EVENS[v + 1] ELSE ODDS[v + 1]
                  IN  table_loop_unreduced(s, i - 1, (sum + x) % 256, idx + w)

RECURSIVE table_loop(_, _, _, _)
\* The for loop of checksum_table: byte i of s (1-based) is next, from the right.
table_loop(s, i, sum, idx) ==
    IF i = 0 THEN sum
    ELSE LET v == char_value(s[i])
         IN  IF v = PANIC THEN PANIC
             ELSE LET w == WIDTHS[v + 1]
                      x == IF (idx % 2) = 0 THEN EVENS[v + 1] ELSE ODDS[v + 1]
                  IN  table_loop(s, i - 1, ((sum + x) % 256) % 10, idx + w)

\* A plausible slip: a difference of 10 is returned as it is.
checksum_table_no_wrap(s) ==
    LET sum == table_loop(s, Len(s), 0, 0)
    IN  IF sum = PANIC THEN PANIC ELSE 10 - sum

checksum_table(s) ==
    LET sum == table_loop(s, Len(s), 0, 0)
        diff == 10 - sum
    IN  IF sum = PANIC THEN PANIC
        ELSE IF diff = 10 THEN 0 ELSE diff

\* ------------------------------------------------------------------ results

NoBytes == << >>

\* Result<_, Error> and the other outcomes of a call, in one shape.
Returned(kind, val, variant, was, expected) ==
    [kind |-> kind, val |-> val, variant |-> variant, was |-> was, expected |-> expected]

NotCalled == Returned("None", NoBytes, "", NoBytes, NoBytes)
Ok(bytes) == Returned("Ok", bytes, "", NoBytes, NoBytes)
Err(variant, was) == Returned("Err", NoBytes, variant, was, NoBytes)
ErrExpected(variant, was, expected) == Returned("Err", NoBytes, variant, was, expected)
\* A panic of a slice index or of copy_from_slice.
Panicked == Returned("Panic", NoBytes, "", NoBytes, NoBytes)
\* The panic!() of char_value, reached through compute_check_digit.
PanickedInCharValue == Returned("Panic", NoBytes, "char_value", NoBytes, NoBytes)
\* The two values the checksum tests compare: (a, b).
Compared(a, b) == Returned("Checksums", <<a, b>>, "", NoBytes, NoBytes)

\* isin-tool before main() runs (and in the runs that only call the library).
ToolNotRun ==
    [pc |-> "not run", args |-> << >>, fix |-> FALSE, good |-> 0, bad |-> 0, fixed |-> 0,
     input |-> << >>, stdout |-> << >>, panic |-> "", status |-> 0]

NoCall == [op |-> "none", split |-> 0]
Called(op) == [op |-> op, split |-> 0]

\* ------------------------------------------------------------------ strings

\* One char as UTF-8 (str::as_bytes of a one-char str).
utf8_encode(c) ==
    IF c < 128 THEN <<c>>
    ELSE IF c < 2048 THEN <<192 + (c \div 64), 128 + (c % 64)>>
    ELSE IF c < 65536 THEN
        <<224 + (c \div 4096), 128 + ((c \div 64) % 64), 128 + (c % 64)>>
    ELSE <<240 + (c \div 262144), 128 + ((c \div 4096) % 64),
           128 + ((c \div 64) % 64), 128 + (c % 64)>>

\* A plausible slip: the str is taken char by char, one unit per char.
as_bytes_per_char(s) == [i \in 1..Len(s) |-> s[i] % 256]

\* value.as_bytes()
as_bytes(s) == Concat([i \in 1..Len(s) |-> utf8_encode(s[i])])

\* value.len(): the length of a str is its length in bytes.
str_len(s) == Len(as_bytes(s))

\* What a build may make of a str that is not UTF-8: nothing, a replacement
\* char, or the bytes taken for chars.
UndefinedStrs(bytes) == {<< >>, <<65533>>, bytes}

\* from_utf8_unchecked(bytes): the set of strs it may return. ASCII bytes are the
\* str of the same chars; the crate passes nothing else, and other bytes are
\* undefined behaviour unless they happen to be UTF-8.
from_utf8_unchecked(bytes) ==
    IF \A i \in 1..Len(bytes) : bytes[i] < 128 THEN {bytes} ELSE UndefinedStrs(bytes)

\* A plausible slip: case folding that leaves the input as it is.
to_ascii_uppercase_noop(s) == s

\* str::to_ascii_uppercase: 'a'..'z' become 'A'..'Z', everything else is kept.
to_ascii_uppercase(s) ==
    [i \in 1..Len(s) |-> IF s[i] \in 97..122 THEN s[i] - 32 ELSE s[i]]

\* char::is_whitespace: the Unicode White_Space property.
is_whitespace(c) ==
    \/ c \in 9..13
    \/ c \in {32, 133, 160, 5760, 8232, 8233, 8239, 8287, 12288}
    \/ c \in 8192..8202

RECURSIVE trim_start(_)
trim_start(s) ==
    IF s # << >> /\ is_whitespace(Head(s)) THEN trim_start(Tail(s)) ELSE s

RECURSIVE trim_end(_)
trim_end(s) ==
    IF s # << >> /\ is_whitespace(s[Len(s)])
    THEN trim_end(SubSeq(s, 1, Len(s) - 1)) ELSE s

\* A plausible slip: trim_start() where trim() was meant.
trim_only_start(s) == trim_start(s)

\* str::trim
trim(s) == trim_end(trim_start(s))

\* ------------------------------------------------------------------ slices

\* &b[lo..hi] panics unless lo <= hi <= b.len().
SliceInRange(b, lo, hi) == lo <= hi /\ hi <= Len(b)
\* &b[lo..hi], with the code's 0-based, half-open bounds.
Slice(b, lo, hi) == SubSeq(b, lo + 1, hi)

\* --------------------------------------------- validation and construction

compute_check_digit(s) ==
    LET sum == checksum_table(s)
    IN  IF sum = PANIC THEN PANIC ELSE (48 + sum) % 256

\* b.is_ascii_alphabetic() && b.is_ascii_uppercase()
is_upper_alpha(b) == b \in 65..90
\* b.is_ascii_digit()
is_ascii_digit(b) == b \in 48..57

\* A plausible slip: is_ascii_alphanumeric() where is_ascii_alphabetic() was meant.
validate_prefix_format_alphanumeric(prefix) ==
    IF Len(prefix) # 2 THEN Err("InvalidPrefixArrayLength", <<Len(prefix)>>)
    ELSE IF \E i \in 1..Len(prefix) :
                ~(is_ascii_digit(prefix[i]) \/ is_upper_alpha(prefix[i]))
    THEN (IF Len(prefix) = 2 THEN Err("InvalidPrefix", prefix) ELSE Panicked)
    ELSE Ok(prefix)

validate_prefix_format(prefix) ==
    IF Len(prefix) # 2 THEN Err("InvalidPrefixArrayLength", <<Len(prefix)>>)
    ELSE IF \E i \in 1..Len(prefix) : ~is_upper_alpha(prefix[i])
    \* prefix_copy.copy_from_slice(prefix) panics unless prefix.len() == 2
    THEN (IF Len(prefix) = 2 THEN Err("InvalidPrefix", prefix) ELSE Panicked)
    ELSE Ok(prefix)

validate_basic_code_format(basic_code) ==
    IF Len(basic_code) # 9
    THEN Err("InvalidBasicCodeArrayLength", <<Len(basic_code)>>)
    ELSE IF \E i \in 1..Len(basic_code) :
                ~(is_ascii_digit(basic_code[i]) \/ is_upper_alpha(basic_code[i]))
    \* basic_code_copy.copy_from_slice(basic_code) panics unless its length is 9
    THEN (IF Len(basic_code) = 9 THEN Err("InvalidBasicCode", basic_code) ELSE Panicked)
    ELSE Ok(basic_code)

\* A plausible slip: the two fields of IncorrectCheckDigit the wrong way round.
validate_check_digit_value_swapped(payload, check_digit) ==
    IF ~is_ascii_digit(check_digit) THEN Err("InvalidCheckDigit", <<check_digit>>)
    ELSE LET computed_check_digit == compute_check_digit(payload)
         IN  IF computed_check_digit = PANIC THEN PanickedInCharValue
             ELSE IF check_digit # computed_check_digit
             THEN ErrExpected("IncorrectCheckDigit", <<computed_check_digit>>,
                              <<check_digit>>)
             ELSE Ok(<<check_digit>>)

\* A plausible slip: only a check digit below the computed one is rejected.
validate_check_digit_value_below_only(payload, check_digit) ==
    IF ~is_ascii_digit(check_digit) THEN Err("InvalidCheckDigit", <<check_digit>>)
    ELSE LET computed_check_digit == compute_check_digit(payload)
         IN  IF computed_check_digit = PANIC THEN PanickedInCharValue
             ELSE IF check_digit < computed_check_digit
             THEN ErrExpected("IncorrectCheckDigit", <<check_digit>>,
                              <<computed_check_digit>>)
             ELSE Ok(<<check_digit>>)

validate_check_digit_value(payload, check_digit) ==
    IF ~is_ascii_digit(check_digit) THEN Err("InvalidCheckDigit", <<check_digit>>)
    ELSE LET computed_check_digit == compute_check_digit(payload)
         IN  IF computed_check_digit = PANIC THEN PanickedInCharValue
             ELSE IF check_digit # computed_check_digit
             THEN ErrExpected("IncorrectCheckDigit", <<check_digit>>,
                              <<computed_check_digit>>)
             ELSE Ok(<<check_digit>>)

\* A plausible slip: the basic code is validated before the prefix.
validate_payload_format_body_first(payload) ==
    IF Len(payload) # 11 THEN Err("InvalidPayloadArrayLength", <<Len(payload)>>)
    ELSE IF ~SliceInRange(payload, 2, 11) THEN Panicked
    ELSE LET c == validate_basic_code_format(Slice(payload, 2, 11))
         IN  IF c.kind # "Ok" THEN c
             ELSE IF ~SliceInRange(payload, 0, 2) THEN Panicked
             ELSE LET p == validate_prefix_format(Slice(payload, 0, 2))
                  IN  IF p.kind # "Ok" THEN p ELSE Ok(payload)

validate_payload_format(payload) ==
    IF Len(payload) # 11 THEN Err("InvalidPayloadArrayLength", <<Len(payload)>>)
    ELSE IF ~SliceInRange(payload, 0, 2) THEN Panicked
    ELSE LET p == validate_prefix_format(Slice(payload, 0, 2))
         IN  IF p.kind # "Ok" THEN p
             ELSE IF ~SliceInRange(payload, 2, 11) THEN Panicked
             ELSE LET c == validate_basic_code_format(Slice(payload, 2, 11))
                  IN  IF c.kind # "Ok" THEN c ELSE Ok(payload)

\* A plausible slip: the check digit is verified, and so the checksum computed,
\* before the payload's format is validated.
validate_sliced_checksum_first(b) ==
    IF ~SliceInRange(b, 0, 11) THEN Panicked
    ELSE IF ~(11 < Len(b)) THEN Panicked
    ELSE LET payload == Slice(b, 0, 11)
             c == validate_check_digit_value(payload, b[12])
         IN  IF c.kind # "Ok" THEN c
             ELSE LET f == validate_payload_format(payload)
                  IN  IF f.kind # "Ok" THEN f ELSE Ok(b)

\* validate, from the slicing of the payload on (b is value.as_bytes()).
validate_sliced(b) ==
    IF ~SliceInRange(b, 0, 11) THEN Panicked
    ELSE LET payload == Slice(b, 0, 11)
             f == validate_payload_format(payload)
         IN  IF f.kind # "Ok" THEN f
             \* b[11] panics unless 11 < b.len()
             ELSE IF ~(11 < Len(b)) THEN Panicked
             ELSE LET c == validate_check_digit_value(payload, b[12])
                  IN  IF c.kind # "Ok" THEN c ELSE Ok(b)

\* A plausible slip: the length of the value is not checked before slicing.
validate_no_length_check(value) == validate_sliced(as_bytes(value))

validate(value) ==
    IF str_len(value) # 12 THEN Err("InvalidValueStringLength", <<str_len(value)>>)
    ELSE LET b == as_bytes(value)
         IN  IF str_len(value) # 12
             THEN Err("InvalidValueArrayLength", <<str_len(value)>>)
             ELSE validate_sliced(b)

\* A plausible slip: parse keeps a length check of its own, with its own error.
parse_own_length_check(value) ==
    IF str_len(value) # 12 THEN Err("InvalidValueArrayLength", <<str_len(value)>>)
    ELSE LET v == validate(value)
         IN  IF v.kind # "Ok" THEN v
             ELSE IF Len(v.val) # 12 THEN Panicked
             ELSE Ok(v.val)

parse(value) ==
    LET v == validate(value)
    IN  IF v.kind # "Ok" THEN v
        \* bb.copy_from_slice(value) panics unless value.len() == 12
        ELSE IF Len(v.val) # 12 THEN Panicked
        ELSE Ok(v.val)

parse_loose(value) ==
    LET uc == to_ascii_uppercase(value)
        temp == trim(uc)
    IN  parse(temp)

\* A plausible slip: the payload's format is not validated before the check
\* digit is computed.
build_from_payload_unvalidated(payload) ==
    LET b == as_bytes(payload)
    IN  IF Len(b) # 11 THEN Panicked
        ELSE LET d == compute_check_digit(b)
             IN  IF d = PANIC THEN PanickedInCharValue ELSE Ok(b \o <<d>>)

build_from_payload(payload) ==
    LET b == as_bytes(payload)
        f == validate_payload_format(b)
    IN  IF f.kind # "Ok" THEN f
        \* bb[0..11].copy_from_slice(b) panics unless b.len() == 11
        ELSE IF Len(b) # 11 THEN Panicked
        ELSE LET d == compute_check_digit(b)
             IN  IF d = PANIC THEN PanickedInCharValue ELSE Ok(b \o <<d>>)

\* A plausible slip: the check digit is computed over the basic code alone.
build_from_parts_digit_of_body(prefix, basic_code) ==
    IF str_len(prefix) # 2
    THEN Err("InvalidPrefixStringLength", <<str_len(prefix)>>)
    ELSE IF ~SliceInRange(as_bytes(prefix), 0, 2) THEN Panicked
    ELSE LET p == Slice(as_bytes(prefix), 0, 2)
             pf == validate_prefix_format(p)
         IN  IF pf.kind # "Ok" THEN pf
             ELSE IF str_len(basic_code) # 9
             THEN Err("InvalidBasicCodeStringLength", <<str_len(basic_code)>>)
             ELSE IF ~SliceInRange(as_bytes(basic_code), 0, 9) THEN Panicked
             ELSE LET c == Slice(as_bytes(basic_code), 0, 9)
                      cf == validate_basic_code_format(c)
                  IN  IF cf.kind # "Ok" THEN cf
                      ELSE LET d == compute_check_digit(c)
                           IN  IF d = PANIC THEN PanickedInCharValue
                               ELSE Ok(p \o c \o <<d>>)

\* A plausible slip: both lengths are checked before either format.
build_from_parts_lengths_first(prefix, basic_code) ==
    IF str_len(prefix) # 2
    THEN Err("InvalidPrefixStringLength", <<str_len(prefix)>>)
    ELSE IF str_len(basic_code) # 9
    THEN Err("InvalidBasicCodeStringLength", <<str_len(basic_code)>>)
    ELSE LET p == Slice(as_bytes(prefix), 0, 2)
             pf == validate_prefix_format(p)
         IN  IF pf.kind # "Ok" THEN pf
             ELSE LET c == Slice(as_bytes(basic_code), 0, 9)
                      cf == validate_basic_code_format(c)
                  IN  IF cf.kind # "Ok" THEN cf
                      ELSE LET d == compute_check_digit(p \o c)
                           IN  IF d = PANIC THEN PanickedInCharValue
                               ELSE Ok(p \o c \o <<d>>)

build_from_parts(prefix, basic_code) ==
    IF str_len(prefix) # 2
    THEN Err("InvalidPrefixStringLength", <<str_len(prefix)>>)
    ELSE IF ~SliceInRange(as_bytes(prefix), 0, 2) THEN Panicked
    ELSE LET p == Slice(as_bytes(prefix), 0, 2)
             pf == validate_prefix_format(p)
         IN  IF pf.kind # "Ok" THEN pf
             ELSE IF str_len(basic_code) # 9
             THEN Err("InvalidBasicCodeStringLength", <<str_len(basic_code)>>)
             ELSE IF ~SliceInRange(as_bytes(basic_code), 0, 9) THEN Panicked
             ELSE LET c == Slice(as_bytes(basic_code), 0, 9)
                      cf == validate_basic_code_format(c)
                  IN  IF cf.kind # "Ok" THEN cf
                      ELSE LET d == compute_check_digit(p \o c)
                           IN  IF d = PANIC THEN PanickedInCharValue ELSE Ok(p \o c \o <<d>>)

\* A plausible slip: the payload's range where the whole array was meant.
to_string_payload_only(isin) == from_utf8_unchecked(SubSeq(isin, 1, 11))

\* impl Display for ISIN, impl AsRef<str> for ISIN: the strs it may return.
to_string(isin) == from_utf8_unchecked(isin)

\* A plausible slip: the basic code's range ends one byte early.
ISIN_basic_code_short(isin) == from_utf8_unchecked(Slice(isin, 2, 10))

\* ISIN::prefix, ISIN::basic_code, ISIN::payload: the strs each may return.
ISIN_prefix(isin) == from_utf8_unchecked(Slice(isin, 0, 2))
ISIN_basic_code(isin) == from_utf8_unchecked(Slice(isin, 2, 11))
ISIN_payload(isin) == from_utf8_unchecked(Slice(isin, 0, 11))
\* ISIN::check_digit: self.0[11] as char.
ISIN_check_digit(isin) == isin[12]

\* --------------------------------------------------- the pipeline's callers

\*   'US0378331005'         Apple, tests::parse_isin_for_apple_strict
\*   'US09739D1000'         check digit 0
\*   'US4581401001'         check digit 1
\*   'US98421M1062'         check digit 2
\*   'US02376R1023'         check digit 3
\*   'US9216591084'         check digit 4
\*   'US0207721095'         check digit 5
\*   'US71363P1066'         check digit 6
\*   'US5915202007'         check digit 7
\*   'US4570301048'         check digit 8
\*   'US8684591089'         check digit 9
\*   'DE000A0GNPZ3'         annex C example 3
\*   'EZR9HY1361L7'         annex E, page 14
\* Identifiers the crate's tests accept.
ValidSamples ==
    { <<85, 83, 48, 51, 55, 56, 51, 51, 49, 48, 48, 53>>,
      <<85, 83, 48, 57, 55, 51, 57, 68, 49, 48, 48, 48>>,
      <<85, 83, 52, 53, 56, 49, 52, 48, 49, 48, 48, 49>>,
      <<85, 83, 57, 56, 52, 50, 49, 77, 49, 48, 54, 50>>,
      <<85, 83, 48, 50, 51, 55, 54, 82, 49, 48, 50, 51>>,
      <<85, 83, 57, 50, 49, 54, 53, 57, 49, 48, 56, 52>>,
      <<85, 83, 48, 50, 48, 55, 55, 50, 49, 48, 57, 53>>,
      <<85, 83, 55, 49, 51, 54, 51, 80, 49, 48, 54, 54>>,
      <<85, 83, 53, 57, 49, 53, 50, 48, 50, 48, 48, 55>>,
      <<85, 83, 52, 53, 55, 48, 51, 48, 49, 48, 52, 56>>,
      <<85, 83, 56, 54, 56, 52, 53, 57, 49, 48, 56, 57>>,
      <<68, 69, 48, 48, 48, 65, 48, 71, 78, 80, 90, 51>>,
      <<69, 90, 82, 57, 72, 89, 49, 51, 54, 49, 76, 55>> }

\*   ''                     tests::reject_empty_string
\*   'us0378331005'         tests::reject_lowercase_prefix_if_strict
\*   'US09739d1000'         tests::reject_lowercase_basic_code_if_strict
\*   '\tus0378331005    '   tests::parse_isin_for_apple_loose
\*   '𑴈𐎟 0 A'               tests::test_unicode_gibberish: 12 bytes in 6 characters
\*   'US037833100'          tests::build_isin_for_apple_from_payload
\*   'US0378331006'         the spec's incorrect-check-digit scenario
\* Other inputs of the crate's tests and of the specification's scenarios.
OtherSamples ==
    { <<>>,
      <<117, 115, 48, 51, 55, 56, 51, 51, 49, 48, 48, 53>>,
      <<85, 83, 48, 57, 55, 51, 57, 100, 49, 48, 48, 48>>,
      <<9, 117, 115, 48, 51, 55, 56, 51, 51, 49, 48, 48, 53, 32, 32, 32, 32>>,
      <<72968, 66463, 32, 48, 32, 65>>,
      <<85, 83, 48, 51, 55, 56, 51, 51, 49, 48, 48>>,
      <<85, 83, 48, 51, 55, 56, 51, 51, 49, 48, 48, 54>> }

Samples == ValidSamples \cup OtherSamples

\* The chars a caller writes over a char of the text: '0', 'A', 'a', ' ',
\* '[' (the byte after 'Z') and U+00A0 (a two-byte char that is white space).
SubstChars == {48, 65, 97, 32, 91, 160}
\* The chars a caller puts before or after the text: ' ', '0' and U+00A0.
PadChars == {32, 48, 160}
\* The chars of the text a caller writes over: both chars of the prefix, the
\* first and the last char of the basic code, the check digit.
EditPositions == {1, 2, 3, 11, 12}
\* Where a caller cuts the text into the two arguments of build_from_parts.
SplitPoints == {1, 2, 3}

Init ==
    /\ text \in Samples
    /\ edits = 0
    /\ call = NoCall
    /\ result = NotCalled
    /\ rendered = << >>
    /\ views = << >>
    /\ rebuilt = << >>
    /\ tool = ToolNotRun

Substitute ==
    /\ call.op = "none"
    /\ edits < MaxEdits
    /\ \E i \in EditPositions \cap (1..Len(text)) : \E c \in SubstChars :
        /\ c # text[i]
        /\ text' = [text EXCEPT ![i] = c]
    /\ edits' = edits + 1
    /\ UNCHANGED <<call, result, rendered, views, rebuilt, tool>>

PadFront ==
    /\ call.op = "none"
    /\ edits < MaxEdits
    /\ \E c \in PadChars : text' = <<c>> \o text
    /\ edits' = edits + 1
    /\ UNCHANGED <<call, result, rendered, views, rebuilt, tool>>

PadBack ==
    /\ call.op = "none"
    /\ edits < MaxEdits
    /\ \E c \in PadChars : text' = Append(text, c)
    /\ edits' = edits + 1
    /\ UNCHANGED <<call, result, rendered, views, rebuilt, tool>>

Truncate ==
    /\ call.op = "none"
    /\ edits < MaxEdits
    /\ text # << >>
    /\ text' = SubSeq(text, 1, Len(text) - 1)
    /\ edits' = edits + 1
    /\ UNCHANGED <<call, result, rendered, views, rebuilt, tool>>

Parse ==
    /\ call.op = "none"
    /\ call' = Called("parse")
    /\ result' = parse(text)
    /\ UNCHANGED <<text, edits, rendered, views, rebuilt, tool>>

ParseLoose ==
    /\ call.op = "none"
    /\ call' = Called("parse_loose")
    /\ result' = parse_loose(text)
    /\ UNCHANGED <<text, edits, rendered, views, rebuilt, tool>>

Validate ==
    /\ call.op = "none"
    /\ call' = Called("validate")
    /\ result' = validate(text)
    /\ UNCHANGED <<text, edits, rendered, views, rebuilt, tool>>

BuildFromPayload ==
    /\ call.op = "none"
    /\ call' = Called("build_from_payload")
    /\ result' = build_from_payload(text)
    /\ UNCHANGED <<text, edits, rendered, views, rebuilt, tool>>

\* The part of text before the cut, and the part after it.
PrefixArg(s, k) == SubSeq(s, 1, k)
BasicCodeArg(s, k) == SubSeq(s, k + 1, Len(s))

BuildFromParts ==
    /\ call.op = "none"
    /\ \E k \in SplitPoints \cap (0..Len(text)) :
        /\ call' = [op |-> "build_from_parts", split |-> k]
        /\ result' = build_from_parts(PrefixArg(text, k), BasicCodeArg(text, k))
    /\ UNCHANGED <<text, edits, rendered, views, rebuilt, tool>>

\* isin.to_string() on the ISIN a call returned.
Render ==
    /\ result.kind = "Ok"
    /\ call.op \in {"parse", "parse_loose", "build_from_payload", "build_from_parts"}
    /\ rendered = << >>
    /\ \E r \in to_string(result.val) : rendered' = <<r>>
    /\ UNCHANGED <<text, edits, call, result, views, rebuilt, tool>>

\* isin.prefix(), isin.basic_code(), isin.payload() and isin.check_digit() on
\* the ISIN a call returned.
Access ==
    /\ result.kind = "Ok"
    /\ call.op \in {"parse", "parse_loose", "build_from_payload", "build_from_parts"}
    /\ views = << >>
    /\ \E p \in ISIN_prefix(result.val) : \E c \in ISIN_basic_code(result.val) :
       \E q \in ISIN_payload(result.val) :
        views' = <<[prefix |-> p, basic_code |-> c, payload |-> q,
                    check_digit |-> ISIN_check_digit(result.val)]>>
    /\ UNCHANGED <<text, edits, call, result, rendered, rebuilt, tool>>

\* build_from_payload(isin.payload()) and
\* build_from_parts(isin.prefix(), isin.basic_code()).
Rebuild ==
    /\ views # << >>
    /\ rebuilt = << >>
    /\ rebuilt' = <<[from_payload |-> build_from_payload(views[1].payload),
                     from_parts |-> build_from_parts(views[1].prefix,
                                                     views[1].basic_code)]>>
    /\ UNCHANGED <<text, edits, call, result, rendered, views, tool>>

Next ==
    \/ Substitute
    \/ PadFront
    \/ PadBack
    \/ Truncate
    \/ Parse
    \/ ParseLoose
    \/ Validate
    \/ BuildFromPayload
    \/ BuildFromParts
    \/ Render
    \/ Access
    \/ Rebuild

Spec == Init /\ [][Next]_vars

\* ---------------------------------------------------------------- isin-tool
\* src/src/bin/isin-tool.rs. tool.args is the argument vector, tool.input the
\* lines read from standard input so far, tool.stdout the lines printed to
\* standard output, tool.panic the expression that panicked, tool.status the
\* exit status (101 is the status of a Rust process that panicked).

\* Most lines the tool reads from standard input in a run.
MaxLines == 3

\* The argument vectors: no argument, "--fix", another argument, two arguments,
\* and no program name either.
ToolArgs ==
    { <<"isin-tool">>, <<"isin-tool", "--fix">>, <<"isin-tool", "-v">>,
      <<"isin-tool", "--fix", "--fix">>, << >> }

\*   'US0378331005', 'DE000A0GNPZ3'   valid
\*   'US0378331006', 'DE000A0GNPZ0'   valid but for the check digit
\*   'us0378331005'                   lowercase prefix
\*   'US037833100'                    11 bytes
\*   ''                               an empty line
\*   '𑴈𐎟 0 A'                         12 bytes in 6 characters
\* The lines standard input may hold.
ToolLines ==
    { <<85, 83, 48, 51, 55, 56, 51, 51, 49, 48, 48, 53>>,
      <<68, 69, 48, 48, 48, 65, 48, 71, 78, 80, 90, 51>>,
      <<85, 83, 48, 51, 55, 56, 51, 51, 49, 48, 48, 54>>,
      <<68, 69, 48, 48, 48, 65, 48, 71, 78, 80, 90, 48>>,
      <<117, 115, 48, 51, 55, 56, 51, 51, 49, 48, 48, 53>>,
      <<85, 83, 48, 51, 55, 56, 51, 51, 49, 48, 48>>,
      << >>,
      <<72968, 66463, 32, 48, 32, 65>> }

\* The tool stopped by a panic in the expression named.
ToolPanicked(t, expression) ==
    [t EXCEPT !.pc = "panicked", !.panic = expression, !.status = 101]

\* A plausible slip: the payload is taken to be the first 12 bytes of the line.
tool_fix_twelve_bytes(line) ==
    LET b == as_bytes(line)
    IN  IF ~SliceInRange(b, 0, 12) THEN {Panicked}
        ELSE {build_from_payload(payload) :
                payload \in from_utf8_unchecked(Slice(b, 0, 12))}

\* Lines 95-99 up to unwrap(): what build_from_payload returns for the first 11
\* bytes of the line, for each str from_utf8_unchecked may produce, or the panic
\* of the slice index.
tool_fix(line) ==
    LET b == as_bytes(line)
    IN  IF ~SliceInRange(b, 0, 11) THEN {Panicked}
        ELSE {build_from_payload(payload) :
                payload \in from_utf8_unchecked(Slice(b, 0, 11))}

\* A plausible slip: a line that was fixed is counted as fixed, not as bad.
tool_line_fixed_not_bad(t, line) ==
    LET r == parse(line)
        read == [t EXCEPT !.input = Append(@, line)]
    IN  IF r.kind = "Ok"
        THEN IF t.fix
             THEN {[read EXCEPT !.good = @ + 1, !.stdout = Append(@, out)] :
                        out \in to_string(r.val)}
             ELSE {[read EXCEPT !.good = @ + 1]}
        ELSE IF r.kind = "Err" /\ r.variant = "IncorrectCheckDigit"
        THEN IF t.fix
             THEN UNION { IF built.kind = "Panic"
                          THEN {ToolPanicked([read EXCEPT !.bad = @ + 1], "[0..11]")}
                          ELSE IF built.kind # "Ok"
                          THEN {ToolPanicked([read EXCEPT !.bad = @ + 1], "unwrap()")}
                          ELSE {[read EXCEPT !.stdout = Append(@, out),
                                             !.fixed = @ + 1] :
                                    out \in to_string(built.val)} :
                          built \in tool_fix(line) }
             ELSE {[read EXCEPT !.bad = @ + 1]}
        ELSE IF r.kind = "Err"
        THEN {[read EXCEPT !.bad = @ + 1]}
        ELSE {ToolPanicked(read, "parse")}

\* The body of the for loop, lines 81-108, on a line that was read: the states
\* of the tool after it.
tool_line(t, line) ==
    LET r == parse(line)
        read == [t EXCEPT !.input = Append(@, line)]
    IN  IF r.kind = "Ok"
        THEN IF t.fix
             THEN {[read EXCEPT !.good = @ + 1, !.stdout = Append(@, out)] :
                        out \in to_string(r.val)}
             ELSE {[read EXCEPT !.good = @ + 1]}
        ELSE IF r.kind = "Err" /\ r.variant = "IncorrectCheckDigit"
        THEN IF t.fix
             THEN UNION { IF built.kind = "Panic"
                          THEN {ToolPanicked([read EXCEPT !.bad = @ + 1], "[0..11]")}
                          ELSE IF built.kind # "Ok"
                          THEN {ToolPanicked([read EXCEPT !.bad = @ + 1], "unwrap()")}
                          ELSE {[read EXCEPT !.bad = @ + 1,
                                             !.stdout = Append(@, out),
                                             !.fixed = @ + 1] :
                                    out \in to_string(built.val)} :
                          built \in tool_fix(line) }
             ELSE {[read EXCEPT !.bad = @ + 1]}
        ELSE IF r.kind = "Err"
        THEN {[read EXCEPT !.bad = @ + 1]}
        ELSE {ToolPanicked(read, "parse")}

\* Lines 111-136: the exit statuses of the tool once standard input is at its
\* end. bad - fixed is a u64 subtraction: were bad < fixed, it would panic in a
\* build with overflow checks and wrap in one without.
tool_exit(t) ==
    IF t.fix
    THEN (IF t.bad < t.fixed THEN {ToolPanicked(t, "bad - fixed")} ELSE {})
         \cup {[t EXCEPT !.pc = "exited", !.status = IF t.bad > t.fixed THEN 1 ELSE 0]}
    ELSE {[t EXCEPT !.pc = "exited", !.status = IF t.bad = 0 THEN 1 ELSE 0]}

InitTool ==
    /\ text = << >>
    /\ edits = 0
    /\ call = NoCall
    /\ result = NotCalled
    /\ rendered = << >>
    /\ views = << >>
    /\ rebuilt = << >>
    /\ \E args \in ToolArgs : tool = [ToolNotRun EXCEPT !.pc = "start", !.args = args]

\* Lines 65-77.
ParseArgs ==
    /\ tool.pc = "start"
    /\ tool' = IF Len(tool.args) = 2 /\ tool.args[2] = "--fix"
               THEN [tool EXCEPT !.pc = "reading", !.fix = TRUE]
               ELSE IF Len(tool.args) # 1
               THEN [tool EXCEPT !.pc = "exited", !.status = 1]
               ELSE [tool EXCEPT !.pc = "reading"]
    /\ UNCHANGED <<text, edits, call, result, rendered, views, rebuilt>>

\* One turn of the loop on a line of standard input.
ReadLine ==
    /\ tool.pc = "reading"
    /\ Len(tool.input) < MaxLines
    /\ \E line \in ToolLines : tool' \in tool_line(tool, line)
    /\ UNCHANGED <<text, edits, call, result, rendered, views, rebuilt>>

\* Line 81: lines() yields an Err for a line that is not UTF-8 or cannot be
\* read, and line.unwrap() panics.
LineUnreadable ==
    /\ tool.pc = "reading"
    /\ Len(tool.input) < MaxLines
    /\ tool' = ToolPanicked(tool, "line.unwrap()")
    /\ UNCHANGED <<text, edits, call, result, rendered, views, rebuilt>>

\* Standard input is at its end.
EndOfInput ==
    /\ tool.pc = "reading"
    /\ tool' \in tool_exit(tool)
    /\ UNCHANGED <<text, edits, call, result, rendered, views, rebuilt>>

NextTool ==
    \/ ParseArgs
    \/ ReadLine
    \/ LineUnreadable
    \/ EndOfInput

SpecTool == InitTool /\ [][NextTool]_vars

\* ------------------------------------------------- properties of the pipeline

\* The bytes of the caller's input.
InputBytes == as_bytes(text)

UpperLetters == 65..90
Digits == 48..57
UpperAlphanumerics == Digits \cup UpperLetters

\* The field rules of an identifier, on 12 bytes (bytes 0-1, 2-10 and 11 of the
\* source are bytes 1-2, 3-11 and 12 here).
BadPrefix(b) == \E i \in 1..2 : b[i] \notin UpperLetters
BadBody(b) == \E i \in 3..11 : b[i] \notin UpperAlphanumerics
\* The ASCII digit of the reference checksum of bytes 0-10.
ExpectedDigit(b) == 48 + checksum_functional(SubSeq(b, 1, 11))

WellFormed(b) ==
    /\ Len(b) = 12
    /\ ~BadPrefix(b)
    /\ ~BadBody(b)
    /\ b[12] \in Digits
    /\ b[12] = ExpectedDigit(b)

ReturnsISIN == {"parse", "parse_loose", "build_from_payload", "build_from_parts"}
ValueLengthErrors == {"InvalidValueStringLength", "InvalidValueArrayLength"}

\* C2: every ISIN returned as Ok by parse, parse_loose, build_from_payload or
\* build_from_parts has two uppercase letters, nine uppercase alphanumerics and
\* the ASCII digit of the checksum of its first eleven bytes.
C2_OkIsWellFormed ==
    (call.op \in ReturnsISIN /\ result.kind = "Ok") => WellFormed(result.val)

\* build_from_parts has returned an ISIN for an edited payload.
C2_Witness ==
    /\ call.op = "build_from_parts"
    /\ result.kind = "Ok"
    /\ edits >= 2
    /\ WellFormed(result.val)

\* C3: parse and parse_loose return Ok or a typed error for every input; no
\* panic is reachable.
C3_NeverPanics ==
    (call.op \in {"parse", "parse_loose"}) => result.kind \in {"Ok", "Err"}

\* parse_loose has been given 12 bytes made of multi-byte chars and returned an
\* error.
C3_Witness ==
    /\ call.op = "parse_loose"
    /\ Len(InputBytes) = 12
    /\ Len(text) < 12
    /\ result.kind = "Err"

\* The earliest check of strict parse that the bytes fail: length, prefix
\* format, body format, check-digit format, check-digit value.
FirstFailure(b) ==
    IF Len(b) # 12 THEN "length"
    ELSE IF BadPrefix(b) THEN "InvalidPrefix"
    ELSE IF BadBody(b) THEN "InvalidBasicCode"
    ELSE IF b[12] \notin Digits THEN "InvalidCheckDigit"
    ELSE IF b[12] # ExpectedDigit(b) THEN "IncorrectCheckDigit"
    ELSE "none"

\* C4: strict parse reports the error of the earliest check the input fails, in
\* the order length, prefix format, body format, check-digit format, check-digit
\* value, whatever later checks it fails too.
C4_FirstFailureReported ==
    (call.op = "parse") =>
        LET f == FirstFailure(InputBytes)
        IN  IF f = "none" THEN result.kind = "Ok"
            ELSE /\ result.kind = "Err"
                 /\ IF f = "length" THEN result.variant \in ValueLengthErrors
                    ELSE result.variant = f

\* parse has been given 12 bytes with a bad prefix, a bad body and a check
\* character that is no digit, and has reported the prefix.
C4_Witness ==
    /\ call.op = "parse"
    /\ Len(InputBytes) = 12
    /\ BadPrefix(InputBytes)
    /\ BadBody(InputBytes)
    /\ InputBytes[12] \notin Digits
    /\ result.variant = "InvalidPrefix"

\* 'US0378331006'
AppleWrongDigit == <<85, 83, 48, 51, 55, 56, 51, 51, 49, 48, 48, 54>>

\* C5: every error of strict parse carries the offending data of the input: the
\* byte length whenever it is not 12, bytes 0-1 for InvalidPrefix, bytes 2-10 for
\* InvalidBasicCode, byte 11 for InvalidCheckDigit, and byte 11 with the digit of
\* the checksum of bytes 0-10 for IncorrectCheckDigit.
C5_ErrorCarriesOffendingData ==
    (call.op = "parse") =>
        LET b == InputBytes
        IN  /\ Len(b) # 12 =>
                /\ result.kind = "Err"
                /\ result.variant \in ValueLengthErrors
                /\ result.was = <<Len(b)>>
            /\ result.kind = "Err" =>
                /\ result.variant \in
                     ValueLengthErrors \cup {"InvalidPrefix", "InvalidBasicCode",
                                             "InvalidCheckDigit", "IncorrectCheckDigit"}
                /\ result.variant \in ValueLengthErrors =>
                     Len(b) # 12 /\ result.was = <<Len(b)>>
                /\ result.variant = "InvalidPrefix" => result.was = SubSeq(b, 1, 2)
                /\ result.variant = "InvalidBasicCode" => result.was = SubSeq(b, 3, 11)
                /\ result.variant = "InvalidCheckDigit" => result.was = <<b[12]>>
                /\ result.variant = "IncorrectCheckDigit" =>
                     /\ result.was = <<b[12]>>
                     /\ result.expected = <<ExpectedDigit(b)>>
            /\ text = AppleWrongDigit =>
                result = ErrExpected("IncorrectCheckDigit", <<54>>, <<53>>)

\* parse has rejected "US0378331006": was '6', expected '5'.
C5_Witness ==
    /\ call.op = "parse"
    /\ text = AppleWrongDigit
    /\ result.variant = "IncorrectCheckDigit"
    /\ result.was = <<54>>
    /\ result.expected = <<53>>

\* C6: parse and validate accept every 12-byte string of two uppercase letters,
\* nine uppercase alphanumerics and the digit of the checksum of bytes 0-10.
C6_WellFormedAccepted ==
    (call.op \in {"parse", "validate"} /\ WellFormed(InputBytes)) =>
        /\ result.kind = "Ok"
        /\ result.val = InputBytes

\* validate has accepted an edited identifier whose check digit is '0'.
C6_Witness ==
    /\ call.op = "validate"
    /\ WellFormed(InputBytes)
    /\ InputBytes[12] = 48
    /\ edits > 0
    /\ result.kind = "Ok"

\* C7: when parse(s) is Ok(v), the text rendering of v is exactly s, and strict
\* parse of the rendering returns v again.
C7_RoundTrip ==
    (call.op = "parse" /\ rendered # << >>) =>
        /\ rendered[1] = text
        /\ parse(rendered[1]) = result

\* An ISIN parsed from an edited text has been rendered.
C7_Witness ==
    /\ call.op = "parse"
    /\ edits > 0
    /\ result.kind = "Ok"
    /\ rendered = <<text>>

\* The chars of the Unicode White_Space property.
WhiteSpaceChars ==
    (9..13) \cup {32, 133, 160, 5760} \cup (8192..8202)
        \cup {8232, 8233, 8239, 8287, 12288}

\* s with ASCII lowercase letters folded to uppercase.
Folded(s) == [i \in 1..Len(s) |-> IF s[i] >= 97 /\ s[i] <= 122 THEN s[i] - 32 ELSE s[i]]

\* s from its first to its last char that is not white space.
Stripped(s) ==
    LET keep == {i \in 1..Len(s) : s[i] \notin WhiteSpaceChars}
    IN  IF keep = {} THEN << >>
        ELSE LET lo == CHOOSE i \in keep : \A j \in keep : i <= j
                 hi == CHOOSE i \in keep : \A j \in keep : i >= j
             IN  [k \in 1..(hi - lo + 1) |-> s[lo + k - 1]]

\* n(s): s uppercased (ASCII) and stripped of leading and trailing white space.
Normalized(s) == Stripped(Folded(s))

\* 'us0378331005' and 'US0378331005'
AppleLowercase == <<117, 115, 48, 51, 55, 56, 51, 51, 49, 48, 48, 53>>
Apple == <<85, 83, 48, 51, 55, 56, 51, 51, 49, 48, 48, 53>>

\* C8: parse_loose(s) returns what strict parse returns on s folded to uppercase
\* and stripped of leading and trailing white space (interior white space
\* stays); "us0378331005", which strict parse rejects for its prefix, is accepted
\* with the value of parse("US0378331005").
C8_LooseIsStrictOfNormalized ==
    (call.op = "parse_loose") =>
        /\ result = parse(Normalized(text))
        /\ text = AppleLowercase =>
            /\ parse(text).variant = "InvalidPrefix"
            /\ result.kind = "Ok"
            /\ result = parse(Apple)

\* parse_loose has accepted a text with leading white space and lowercase
\* letters.
C8_Witness ==
    /\ call.op = "parse_loose"
    /\ text # << >>
    /\ text[1] \in WhiteSpaceChars
    /\ \E i \in 1..Len(text) : text[i] \in 97..122
    /\ result.kind = "Ok"

\* C9: parse_loose(s) = parse_loose(n(s)): the same Ok value or the same error.
C9_LooseIdempotent ==
    (call.op = "parse_loose") => result = parse_loose(Normalized(text))

\* parse_loose has rejected, for its check digit, a text that ends in white
\* space.
C9_Witness ==
    /\ call.op = "parse_loose"
    /\ text # << >>
    /\ text[Len(text)] \in WhiteSpaceChars
    /\ result.variant = "IncorrectCheckDigit"
    /\ result = parse_loose(Normalized(text))

\* C10: build_from_payload returns a payload-length error when the byte length
\* is not 11, otherwise InvalidPrefix for a bad prefix, otherwise
\* InvalidBasicCode for a bad body, otherwise Ok; never a check-digit error,
\* never a panic.
C10_PayloadFailsOnLengthOrFormat ==
    (call.op = "build_from_payload") =>
        LET b == InputBytes
        IN  /\ result.kind \in {"Ok", "Err"}
            /\ result.variant \notin {"InvalidCheckDigit", "IncorrectCheckDigit"}
            /\ IF Len(b) # 11
               THEN result = Err("InvalidPayloadArrayLength", <<Len(b)>>)
               ELSE IF BadPrefix(b)
               THEN result.kind = "Err" /\ result.variant = "InvalidPrefix"
               ELSE IF BadBody(b)
               THEN result.kind = "Err" /\ result.variant = "InvalidBasicCode"
               ELSE result.kind = "Ok"

\* build_from_payload has been given 11 bytes with a bad prefix and a bad body
\* and has reported the prefix.
C10_Witness ==
    /\ call.op = "build_from_payload"
    /\ Len(InputBytes) = 11
    /\ BadPrefix(InputBytes)
    /\ BadBody(InputBytes)
    /\ result.variant = "InvalidPrefix"

\* C11: for every identifier v obtained from parse, build_from_payload(v.payload())
\* and build_from_parts(v.prefix(), v.basic_code()) both return Ok(v).
C11_RebuildReproducesParse ==
    (call.op = "parse" /\ rebuilt # << >>) =>
        /\ result.kind = "Ok"
        /\ rebuilt[1].from_payload = result
        /\ rebuilt[1].from_parts = result

\* "US0378331005" has been parsed and rebuilt from its payload "US037833100" and
\* from its parts "US" and "037833100".
C11_Witness ==
    /\ call.op = "parse"
    /\ text = Apple
    /\ views # << >>
    /\ rebuilt # << >>
    /\ views[1].payload = SubSeq(Apple, 1, 11)
    /\ views[1].prefix = <<85, 83>>
    /\ rebuilt[1].from_payload.val = Apple
    /\ rebuilt[1].from_parts.val = Apple

\* The two arguments of the build_from_parts call made on text.
PrefixBytes == as_bytes(PrefixArg(text, call.split))
BasicCodeBytes == as_bytes(BasicCodeArg(text, call.split))

\* C12: build_from_parts returns InvalidPrefixStringLength iff the prefix is not
\* 2 bytes long; otherwise InvalidPrefix if it is not two uppercase letters;
\* otherwise InvalidBasicCodeStringLength if the body is not 9 bytes long;
\* otherwise InvalidBasicCode if it is not nine uppercase alphanumerics;
\* otherwise Ok, with the check digit computed over prefix followed by body.
C12_PartsCheckedInOrder ==
    (call.op = "build_from_parts") =>
        LET p == PrefixBytes
            c == BasicCodeBytes
        IN  /\ (result.kind = "Err" /\ result.variant = "InvalidPrefixStringLength")
                 <=> Len(p) # 2
            /\ IF Len(p) # 2
               THEN result = Err("InvalidPrefixStringLength", <<Len(p)>>)
               ELSE IF \E i \in 1..2 : p[i] \notin UpperLetters
               THEN result = Err("InvalidPrefix", p)
               ELSE IF Len(c) # 9
               THEN result = Err("InvalidBasicCodeStringLength", <<Len(c)>>)
               ELSE IF \E i \in 1..9 : c[i] \notin UpperAlphanumerics
               THEN result = Err("InvalidBasicCode", c)
               ELSE result = Ok(p \o c \o <<48 + checksum_functional(p \o c)>>)

\* build_from_parts has been given a 2-byte prefix that is not two letters and a
\* body that is not 9 bytes long, and has reported the prefix's format.
C12_Witness ==
    /\ call.op = "build_from_parts"
    /\ Len(PrefixBytes) = 2
    /\ Len(BasicCodeBytes) # 9
    /\ result.variant = "InvalidPrefix"

\* C13: validate(s) succeeds iff parse(s) succeeds, a failure is the identical
\* error, and on success validate returns the input's 12 bytes unchanged.
C13_ValidateIsParse ==
    (call.op = "validate") =>
        /\ (result.kind = "Ok") <=> (parse(text).kind = "Ok")
        /\ result.kind # "Ok" => result = parse(text)
        /\ result.kind = "Ok" => result.val = InputBytes /\ Len(result.val) = 12

\* validate has rejected a 12-byte input for its check digit, as parse does.
C13_Witness ==
    /\ call.op = "validate"
    /\ Len(InputBytes) = 12
    /\ result.variant = "IncorrectCheckDigit"
    /\ result = parse(text)

\* C14: prefix() is bytes 0-1 of the identifier, basic_code() bytes 2-10,
\* payload() bytes 0-10 and check_digit() byte 11; so payload() is prefix()
\* followed by basic_code(), and the rendering is payload() followed by
\* check_digit().
C14_AccessorsAreFixedViews ==
    (views # << >>) =>
        LET v == result.val
            w == views[1]
        IN  /\ w.prefix = SubSeq(v, 1, 2)
            /\ w.basic_code = SubSeq(v, 3, 11)
            /\ w.payload = SubSeq(v, 1, 11)
            /\ w.check_digit = v[12]
            /\ w.payload = w.prefix \o w.basic_code
            /\ rendered # << >> => rendered[1] = w.payload \o <<w.check_digit>>
            /\ v = Apple =>
                /\ w.prefix = <<85, 83>>
                /\ w.basic_code = <<48, 51, 55, 56, 51, 51, 49, 48, 48>>
                /\ w.check_digit = 53

\* The accessors and the rendering of "US0378331005" have been read: "US",
\* "037833100", '5'.
C14_Witness ==
    /\ views # << >>
    /\ rendered # << >>
    /\ result.val = Apple
    /\ views[1].basic_code = <<48, 51, 55, 56, 51, 51, 49, 48, 48>>
    /\ views[1].check_digit = 53
    /\ rendered[1] = views[1].payload \o <<views[1].check_digit>>

\* C15: every input with a byte >= 0x80, non-ASCII white space included, is
\* rejected by parse and by parse_loose: they return an error, never an
\* identifier.
C15_NonAsciiRejected ==
    (/\ call.op \in {"parse", "parse_loose"}
     /\ \E i \in 1..Len(InputBytes) : InputBytes[i] >= 128) =>
        result.kind = "Err"

\* The bytes the call hands to the checksum engine if it gets that far, and the
\* check character it compares the digit with (none for the two builders).
LooseBytes == as_bytes(Normalized(text))
First11(b) == SubSeq(b, 1, IF Len(b) < 11 THEN Len(b) ELSE 11)
Twelfth(b) == IF Len(b) < 12 THEN << >> ELSE <<b[12]>>
PayloadOfCall ==
    CASE call.op \in {"parse", "validate"} -> First11(InputBytes)
      [] call.op = "parse_loose" -> First11(LooseBytes)
      [] call.op = "build_from_payload" -> InputBytes
      [] call.op = "build_from_parts" -> PrefixBytes \o BasicCodeBytes
CheckCharOfCall ==
    CASE call.op \in {"parse", "validate"} -> Twelfth(InputBytes)
      [] call.op = "parse_loose" -> Twelfth(LooseBytes)
      [] call.op \in {"build_from_payload", "build_from_parts"} -> << >>
FormatErrors ==
    {"InvalidPrefix", "InvalidBasicCode", "InvalidCheckDigit"}

\* C19: parse, parse_loose, validate, build_from_payload and build_from_parts
\* compute the checksum only after the prefix and the body have passed format
\* validation (parse, parse_loose and validate only after the check character
\* was found to be a digit too): char_value is never reached with a byte outside
\* '0'-'9' / 'A'-'Z'. A result that needed the checksum (Ok or
\* IncorrectCheckDigit) comes from a payload of two letters and nine
\* alphanumerics, and a payload of the right length with a bad byte, or a check
\* character that is no digit, gets a format error.
C19_ChecksumOnlyAfterFormat ==
    (call.op \in ReturnsISIN \cup {"validate"}) =>
        /\ result.kind # "Panic"
        /\ (result.kind = "Ok" \/ result.variant = "IncorrectCheckDigit") =>
            /\ Len(PayloadOfCall) = 11
            /\ \A i \in 1..2 : PayloadOfCall[i] \in UpperLetters
            /\ \A i \in 3..11 : PayloadOfCall[i] \in UpperAlphanumerics
            /\ \A i \in 1..Len(CheckCharOfCall) : CheckCharOfCall[i] \in Digits
        /\ (/\ Len(PayloadOfCall) = 11
            /\ result.variant \notin {"InvalidValueStringLength",
                                      "InvalidPrefixStringLength",
                                      "InvalidBasicCodeStringLength"}
            /\ \/ \E i \in 1..11 : PayloadOfCall[i] \notin UpperAlphanumerics
               \/ \E i \in 1..Len(CheckCharOfCall) : CheckCharOfCall[i] \notin Digits)
            => result.variant \in FormatErrors

\* parse has been given twelve bytes with a lowercase letter in the body and a
\* digit as check character, and has reported the body, not panicked.
C19_Witness ==
    /\ call.op = "parse"
    /\ Len(InputBytes) = 12
    /\ \A i \in 1..2 : InputBytes[i] \in UpperLetters
    /\ \E i \in 3..11 : InputBytes[i] \in 97..122
    /\ InputBytes[12] \in Digits
    /\ result = Err("InvalidBasicCode", SubSeq(InputBytes, 3, 11))

\* Two uppercase letters followed by nine uppercase alphanumerics.
WellFormedPayload(b) ==
    /\ Len(b) = 11
    /\ \A i \in 1..2 : b[i] \in UpperLetters
    /\ \A i \in 3..11 : b[i] \in UpperAlphanumerics
\* The check digits strict parse accepts after a payload.
AcceptedDigits(payload) == {d \in Digits : parse(payload \o <<d>>).kind = "Ok"}
\* Exactly one digit is accepted after the payload, and the other nine are
\* rejected with IncorrectCheckDigit carrying the digit given and that one.
OneDigitAccepted(payload) ==
    /\ Cardinality(AcceptedDigits(payload)) = 1
    /\ \A u \in AcceptedDigits(payload) : \A d \in Digits \ {u} :
        LET r == parse(payload \o <<d>>)
        IN  /\ r.kind = "Err"
            /\ r.variant = "IncorrectCheckDigit"
            /\ r.was = <<d>>
            /\ r.expected = <<u>>

\* C24: for every well-formed 11-byte payload exactly one of the ten strings
\* payload ++ d, d in '0'..'9', is accepted by strict parse; the other nine are
\* rejected with IncorrectCheckDigit whose 'expected' is that digit, and that
\* digit is the one build_from_payload appends.
C24_ExactlyOneDigitAccepted ==
    /\ (call.op = "build_from_payload" /\ WellFormedPayload(InputBytes)) =>
        /\ OneDigitAccepted(text)
        /\ result.kind = "Ok"
        /\ \A u \in AcceptedDigits(text) : result.val = InputBytes \o <<u>>
    /\ (/\ call.op = "parse"
        /\ Len(InputBytes) = 12
        /\ WellFormedPayload(SubSeq(InputBytes, 1, 11))
        /\ InputBytes[12] \in Digits) =>
        /\ OneDigitAccepted(SubSeq(text, 1, 11))
        /\ result.kind = "Ok" <=> InputBytes[12] \in AcceptedDigits(SubSeq(text, 1, 11))
        /\ result.kind # "Ok" =>
            /\ result.variant = "IncorrectCheckDigit"
            /\ AcceptedDigits(SubSeq(text, 1, 11)) = {result.expected[1]}

\* build_from_payload has been given "US037833100" and has appended '5', the
\* one digit parse accepts after it; "US0378331006" is rejected expecting '5'.
C24_Witness ==
    /\ call.op = "build_from_payload"
    /\ text = SubSeq(Apple, 1, 11)
    /\ result.val = Apple
    /\ AcceptedDigits(text) = {53}
    /\ parse(AppleWrongDigit).expected = <<53>>

\* ------------------------------------------- the checksum engine's callers

\* The bytes the engine accepts.
ValidBytes == (48..57) \cup (65..90)
\* Bytes just outside the accepted ranges, a lowercase letter, a space and
\* bytes of a multi-byte character.
InvalidBytes == {47, 58, 64, 91, 97, 122, 32, 128, 255}
\* '0', '5', '9', 'A', 'J', 'Z': both widths, and doubles with and without carry.
CoreBytes == {48, 53, 57, 65, 74, 90}

IsValidSlice(s) == \A i \in 1..Len(s) : s[i] \in ValidBytes

\* The payloads of the identifiers the crate's tests accept: strings of the
\* pattern [A-Z]{2}[0-9A-Z]{9}.
PayloadSamples == {SubSeq(s, 1, 11) : s \in ValidSamples}

InitChecksum ==
    /\ text \in {<< >>} \cup PayloadSamples
    /\ edits = 0
    /\ call = NoCall
    /\ result = NotCalled
    /\ rendered = << >>
    /\ views = << >>
    /\ rebuilt = << >>
    /\ tool = ToolNotRun

\* The caller extends the slice by one byte.
PushByte ==
    /\ call.op = "none"
    /\ \E c \in ValidBytes \cup InvalidBytes :
        /\ \/ Len(text) < MaxLen
           \/ /\ Len(text) < MaxLongLen
              /\ c \in CoreBytes
              /\ \A i \in 1..Len(text) : text[i] \in CoreBytes
        /\ text' = Append(text, c)
    /\ edits' = edits + 1
    /\ UNCHANGED <<call, result, rendered, views, rebuilt, tool>>

\* let a = checksum_functional(&ss); let b = checksum_table(&ss);
CompareChecksums ==
    /\ call.op = "none"
    /\ call' = Called("checksums")
    /\ result' = Compared(checksum_functional(text), checksum_table(text))
    /\ UNCHANGED <<text, edits, rendered, views, rebuilt, tool>>

NextChecksum == PushByte \/ CompareChecksums

SpecChecksum == InitChecksum /\ [][NextChecksum]_vars

\* C1: for every slice of valid bytes, of any length, checksum_functional and
\* checksum_table return the same value (and neither panics).
C1_ChecksumsAgree ==
    (call.op = "checksums" /\ IsValidSlice(text)) =>
        /\ result.kind = "Checksums"
        /\ result.val[1] = result.val[2]
        /\ result.val[1] # PANIC

\* Both functions have been applied to a longest valid slice that mixes letters
\* and digits, and agreed on it.
C1_Witness ==
    /\ call.op = "checksums"
    /\ IsValidSlice(text)
    /\ Len(text) = MaxLongLen
    /\ \E i \in 1..Len(text) : text[i] \in 65..90
    /\ \E i \in 1..Len(text) : text[i] \in 48..57
    /\ result.val[1] = result.val[2]

\* C18: on every slice with a byte outside '0'-'9' / 'A'-'Z', at any position,
\* lowercase letters included, checksum_functional and checksum_table both panic
\* and return no value.
C18_BothPanicOnInvalidByte ==
    (/\ call.op = "checksums"
     /\ \E i \in 1..Len(text) : text[i] \notin (48..57) \cup (65..90)) =>
        /\ result.val[1] = PANIC
        /\ result.val[2] = PANIC

\* Both functions have been applied to a slice whose first byte is a lowercase
\* letter and whose last byte is valid, and both have panicked.
C18_Witness ==
    /\ call.op = "checksums"
    /\ Len(text) = 2
    /\ text[1] \in 97..122
    /\ text[2] \in ValidBytes
    /\ result.val = <<PANIC, PANIC>>

\* The double-add-double definition, step by step. The value 0-35 of a character:
ReferenceValue(c) == IF c <= 57 THEN c - 48 ELSE c - 55
RECURSIVE ReferenceDigits(_)
\* The decimal digits of the characters' values, most significant first.
ReferenceDigits(s) ==
    IF s = << >> THEN << >>
    ELSE LET v == ReferenceValue(Head(s))
         IN  (IF v > 9 THEN <<v \div 10, v % 10>> ELSE <<v>>) \o ReferenceDigits(Tail(s))
\* What the digit at index i (0-based) of the reversed sequence adds to S: the
\* digits of its double at even index, the digit itself at odd index.
ReferenceTerm(d, i) ==
    IF i % 2 = 0 THEN ((2 * d) \div 10) + ((2 * d) % 10) ELSE d
RECURSIVE ReferenceSum(_, _)
\* S over the digits ds[1..n], ds[n] being index 0 of the reversed sequence.
ReferenceSum(ds, n) ==
    IF n = 0 THEN 0
    ELSE ReferenceTerm(ds[n], Len(ds) - n) + ReferenceSum(ds, n - 1)
ReferenceChecksum(s) ==
    LET ds == ReferenceDigits(s)
    IN  (10 - (ReferenceSum(ds, Len(ds)) % 10)) % 10

UsPayload == <<85, 83, 48, 51, 55, 56, 51, 51, 49, 48, 48>>

\* C20: for every valid input checksum_functional returns (10 - (S mod 10)) mod 10,
\* S being the sum of the double-add-double definition; for "US037833100" it
\* returns 5.
C20_FunctionalIsReference ==
    (call.op = "checksums" /\ IsValidSlice(text)) =>
        /\ result.val[1] = ReferenceChecksum(text)
        /\ text = UsPayload => result.val[1] = 5

\* checksum_functional has been applied to "US037833100", whose digits
\* 3 0 2 8 0 3 7 8 3 3 1 0 0 give S = 45, and has returned 5.
C20_Witness ==
    /\ call.op = "checksums"
    /\ text = UsPayload
    /\ ReferenceDigits(text) = <<3, 0, 2, 8, 0, 3, 7, 8, 3, 3, 1, 0, 0>>
    /\ ReferenceSum(ReferenceDigits(text), 13) = 45
    /\ result.val[1] = 5

\* The sum of the decimal digits of a number below 100.
DigitSum(n) == (n \div 10) + (n % 10)
\* What the reference algorithm adds to S for a character of value v whose last
\* digit sits at an even index of the reversed digit sequence: the last digit
\* doubled and digit-summed, the tens digit (at the next, odd, index) as it is.
EvenContribution(v) == DigitSum(2 * (v % 10)) + (v \div 10)
\* The same when the last digit sits at an odd index: the last digit as it is,
\* the tens digit (at the next, even, index) doubled and digit-summed.
OddContribution(v) == (v % 10) + DigitSum(2 * (v \div 10))

\* C21: WIDTHS, ODDS and EVENS have exactly 36 entries; for every character
\* value v in 0..35, WIDTHS[v] is 1 for v < 10 and 2 otherwise, EVENS[v] is the
\* reference contribution of v at an even index, mod 10, and ODDS[v] the
\* reference contribution at an odd index, mod 10. So checksum_table on a single
\* character, and on a character left of '0', returns what these contributions
\* give.
C21_TablesAreReference ==
    /\ Len(WIDTHS) = 36
    /\ Len(EVENS) = 36
    /\ Len(ODDS) = 36
    /\ \A v \in 0..35 :
        /\ WIDTHS[v + 1] = IF v < 10 THEN 1 ELSE 2
        /\ EVENS[v + 1] = EvenContribution(v) % 10
        /\ ODDS[v + 1] = OddContribution(v) % 10
    /\ (call.op = "checksums" /\ IsValidSlice(text) /\ Len(text) = 1) =>
        result.val[2] = (10 - (EvenContribution(ReferenceValue(text[1])) % 10)) % 10
    /\ (call.op = "checksums" /\ IsValidSlice(text) /\ Len(text) = 2 /\ text[2] = 48) =>
        result.val[2] = (10 - (OddContribution(ReferenceValue(text[1])) % 10)) % 10

\* checksum_table has been applied to "I0": 'I' (value 18) contributes through
\* ODDS, 8 + 2 = 10 reduced to 0, and the checksum is 0.
C21_Witness ==
    /\ call.op = "checksums"
    /\ text = <<73, 48>>
    /\ OddContribution(18) = 10
    /\ ODDS[19] = 0
    /\ result.val[2] = 0

\* The number of steps a character takes: 1 for a digit, 2 for a letter.
StepsOf(c) == IF c <= 57 THEN 1 ELSE 2
\* The number of characters to the right of character i of s (1-based).
CharsRightOf(s, i) == Len(s) - i
RECURSIVE DigitsRightOf(_, _)
\* The number of digits to the right of character i of s in the expanded
\* digit sequence.
DigitsRightOf(s, i) ==
    IF i >= Len(s) THEN 0 ELSE StepsOf(s[i + 1]) + DigitsRightOf(s, i + 1)
\* The table entry of a character at a position of the given parity.
EntryAt(c, position) ==
    IF position % 2 = 0 THEN EVENS[ReferenceValue(c) + 1] ELSE ODDS[ReferenceValue(c) + 1]
\* The check digit of a sum.
DigitOfSum(sum) == (10 - (sum % 10)) % 10

\* C22 as stated: in checksum_table a character contributes through EVENS or
\* through ODDS by the parity of the number of characters to its right in the
\* original sequence, not by its position in the expanded digit sequence.
C22_TableByCharacterPosition ==
    (call.op = "checksums" /\ IsValidSlice(text)) =>
        result.val[2] =
            DigitOfSum(SumSeq([i \in 1..Len(text) |->
                                EntryAt(text[i], CharsRightOf(text, i))]))

\* C22, amended: in checksum_table a character contributes through EVENS or
\* through ODDS by the parity of the number of digits to its right in the
\* expanded digit sequence (one per digit character, two per letter), which is
\* the step counter advanced by WIDTHS.
C22_TableByDigitPosition ==
    (call.op = "checksums" /\ IsValidSlice(text)) =>
        result.val[2] =
            DigitOfSum(SumSeq([i \in 1..Len(text) |->
                                EntryAt(text[i], DigitsRightOf(text, i))]))

\* checksum_table has been applied to "1A": '1' has one character but two
\* digits to its right and contributes EVENS[1] = 2, so the checksum is 7 (it
\* would be 8 through ODDS).
C22_Witness ==
    /\ call.op = "checksums"
    /\ text = <<49, 65>>
    /\ CharsRightOf(text, 1) = 1
    /\ DigitsRightOf(text, 1) = 2
    /\ result.val[2] = 7

\* The running sum of checksum_table on s before character i is processed: the
\* sum after the characters to the right of i.
SumBefore(s, i) == table_loop(SubSeq(s, i + 1, Len(s)), Len(s) - i, 0, 0)

\* C23: in checksum_table the running sum is reduced mod 10 after every
\* character: it lies in 0..9 at every step and sum + x is at most 18, so the u8
\* addition does not overflow; both checksum functions return a value in 0..9,
\* and compute_check_digit an ASCII digit '0'..'9'.
C23_SumStaysBelowTen ==
    /\ \A v \in 0..35 : EVENS[v + 1] \in 0..9 /\ ODDS[v + 1] \in 0..9
    /\ (call.op = "checksums" /\ IsValidSlice(text)) =>
        /\ \A i \in 0..Len(text) : SumBefore(text, i) \in 0..9
        /\ \A i \in 1..Len(text) :
            SumBefore(text, i) + EntryAt(text[i], DigitsRightOf(text, i)) <= 18
        /\ result.val[1] \in 0..9
        /\ result.val[2] \in 0..9
        /\ compute_check_digit(text) \in 48..57

\* checksum_table has been applied to a longest slice of '9's: the sum before the
\* second character from the right is 9, and 9 + 9 = 18 is reduced to 8.
C23_Witness ==
    /\ call.op = "checksums"
    /\ Len(text) = MaxLongLen
    /\ \A i \in 1..Len(text) : text[i] = 57
    /\ SumBefore(text, MaxLongLen - 1) + EntryAt(57, 1) = 18
    /\ SumBefore(text, MaxLongLen - 2) = 8
    /\ result.val[2] \in 0..9

\* ---------------------------------------------------- properties of isin-tool

\* C16: run without --fix, the tool exits with status zero if no bad value was
\* found among the lines it read (every line parsed as a valid ISIN, bad = 0),
\* and with a non-zero status otherwise.
C16_ZeroExitIffNoBadLine ==
    (tool.pc = "exited" /\ tool.args = <<"isin-tool">>) =>
        /\ tool.bad = 0 <=> \A i \in 1..Len(tool.input) : parse(tool.input[i]).kind = "Ok"
        /\ tool.status = 0 <=> tool.bad = 0

\* The lines the tool can fix: strict parse rejects them for the check digit's
\* value.
Fixable(line) == parse(line).variant = "IncorrectCheckDigit"

RECURSIVE ExpectedOutput(_)
\* One identifier for each good and each fixable line, in the order read: the
\* line itself, or its first 11 bytes followed by the expected check digit.
ExpectedOutput(lines) ==
    IF lines = << >> THEN << >>
    ELSE LET b == as_bytes(Head(lines))
             r == parse(Head(lines))
         IN  (IF r.kind = "Ok" THEN <<b>>
              ELSE IF Fixable(Head(lines)) THEN <<SubSeq(b, 1, 11) \o r.expected>>
              ELSE << >>) \o ExpectedOutput(Tail(lines))

StdoutBytes == [i \in 1..Len(tool.stdout) |-> as_bytes(tool.stdout[i])]

\* C17: in fix mode the tool never panics on a fixable line: every line strict
\* parse rejects with IncorrectCheckDigit{was, expected} is 12 bytes long,
\* build_from_payload on its first 11 bytes returns Ok, the ISIN built has
\* 'expected' as check digit and is accepted by parse; every good and every
\* fixable line yields exactly one printed valid ISIN.
C17_FixableLinesAreFixed ==
    tool.fix =>
        /\ tool.panic \notin {"[0..11]", "unwrap()", "parse"}
        /\ \A i \in 1..Len(tool.input) : Fixable(tool.input[i]) =>
            LET b == as_bytes(tool.input[i])
                r == parse(tool.input[i])
            IN  /\ Len(b) = 12
                /\ \A payload \in from_utf8_unchecked(SubSeq(b, 1, 11)) :
                    LET built == build_from_payload(payload)
                    IN  /\ built.kind = "Ok"
                        /\ <<built.val[12]>> = r.expected
                        /\ \A s \in to_string(built.val) : parse(s).kind = "Ok"
        /\ StdoutBytes = ExpectedOutput(tool.input)
        /\ \A i \in 1..Len(tool.stdout) : WellFormed(StdoutBytes[i])

\* In fix mode the tool has read a good line, a fixable line and a line it cannot
\* fix, has printed two identifiers, the second being "US0378331005" for the
\* line "US0378331006", and has exited.
C17_Witness ==
    /\ tool.fix
    /\ tool.pc = "exited"
    /\ tool.input = << <<68, 69, 48, 48, 48, 65, 48, 71, 78, 80, 90, 51>>,
                       AppleWrongDigit,
                       AppleLowercase >>
    /\ tool.stdout = << <<68, 69, 48, 48, 48, 65, 48, 71, 78, 80, 90, 51>>, Apple >>
    /\ tool.good = 1
    /\ tool.fixed = 1

\* The number of lines read that satisfy a condition of strict parse's result.
GoodLines == {i \in 1..Len(tool.input) : parse(tool.input[i]).kind = "Ok"}
FixableLines == {i \in 1..Len(tool.input) : Fixable(tool.input[i])}

\* C25: after any sequence of input lines good + bad is the number of lines read,
\* each line being counted once; fixed <= bad, so bad - fixed does not underflow;
\* with --fix, fixed is the number of lines rejected only for an incorrect check
\* digit; without --fix, fixed stays 0.
C25_CountersAccountForLines ==
    /\ tool.good + tool.bad = Len(tool.input)
    /\ tool.good = Cardinality(GoodLines)
    /\ tool.fixed <= tool.bad
    /\ tool.panic # "bad - fixed"
    /\ tool.fix => tool.fixed = Cardinality(FixableLines)
    /\ ~tool.fix => tool.fixed = 0

\* In fix mode the tool has read two fixable lines and an empty line, has counted
\* three bad lines of which two fixed, and has exited with status 1.
C25_Witness ==
    /\ tool.fix
    /\ tool.pc = "exited"
    /\ tool.input = << AppleWrongDigit,
                       <<68, 69, 48, 48, 48, 65, 48, 71, 78, 80, 90, 48>>,
                       << >> >>
    /\ tool.good = 0
    /\ tool.bad = 3
    /\ tool.fixed = 2
    /\ tool.status = 1

====
